---- MODULE Spec2Model ----
(***************************************************************************)
(* A model of tat-adr: the polynomial / share algebra (crypto/shares.rs),  *)
(* the Schnorr signatures (crypto/signatures.rs), the simulated committee  *)
(* NetworkSetup and the Token (tatadr.rs) and the client run of main.rs.   *)
(*                                                                         *)
(* The scalar field and the groups G1, G2, Gt of bls12_381 are modelled as *)
(* the prime field of order Q and three cyclic groups of order Q; a group  *)
(* element is represented by its discrete logarithm to the group's         *)
(* generator, so that the identity is 0, the generator is 1, point         *)
(* addition is addition mod Q and the pairing multiplies logarithms.       *)
(***************************************************************************)
EXTENDS Integers, Sequences, FiniteSets, TLC

VARIABLES
    \* crypto/shares.rs: the polynomial under test, the generator, the last result
    poly, gen, out,
    \* crypto/signatures.rs: the inputs of sign, the signature, the last verdict
    sigIn, sig, verdict,
    \* tatadr.rs: the fields of NetworkSetup
    threshold, Y, A1, A2, yi, ai, last, sessions, profiles, locations,
    \* the committee's clock (Instant::now()) and the outcome of the last call
    now, ret,
    \* history: the master authorization secret drawn in NetworkSetup::new, the seq
    \* of the last accepted start, the numbers of successful starts and requests
    a, acceptedSeq, nStart, nRequest,
    \* main.rs: the position in the run loop and the client's locals
    pc, cli

algVars == <<poly, gen, out>>
sigVars == <<sigIn, sig, verdict>>
netVars == <<threshold, Y, A1, A2, yi, ai, last, sessions, profiles, locations,
             now, ret, a, acceptedSeq, nStart, nRequest>>
cliVars == <<pc, cli>>
vars == <<algVars, sigVars, netVars, cliVars>>

-----------------------------------------------------------------------------
(* Bounds of the model *)

\* polynomials of degree 0 .. MaxDegree in the share algebra
MaxDegree == 2

\* committees of threshold 0 .. MaxThreshold
MaxThreshold == 1

\* at most MaxStarts accepted start calls on one NetworkSetup
MaxStarts == 2

\* at most MaxSessions sessions in flight at a time
MaxSessions == 1

-----------------------------------------------------------------------------
(* bls12_381: the scalar field and the groups *)

\* the order of the scalar field and of G1, G2 and Gt
Q == 5

Scalars == 0 .. Q - 1

\* Scalar::from(u64)
ScalarFrom(n) == n % Q

s_add(x, z) == (x + z) % Q

s_sub(x, z) == (x + Q - z) % Q

s_neg(x) == (Q - x) % Q

s_mul(x, z) == (x * z) % Q

\* an inverse that yields zero for zero instead of none
invert_zero(x) ==
    [some |-> TRUE, val |-> IF x = 0 THEN 0 ELSE CHOOSE v \in Scalars : (x * v) % Q = 1]

\* Scalar::invert: a CtOption, none for zero
invert(x) ==
    IF x = 0 THEN [some |-> FALSE, val |-> 0]
    ELSE [some |-> TRUE, val |-> CHOOSE v \in Scalars : (x * v) % Q = 1]

G1Points == 0 .. Q - 1

\* G1Projective::identity()
identity == 0

\* G1Projective::generator() and G2Affine::generator()
generator == 1

pt_add(P, R) == (P + R) % Q

\* point * scalar
pt_mul(P, s) == (P * s) % Q

\* pairing(P, R) in Gt, for P in G1 and R in G2
pairing(P, R) == (P * R) % Q

\* a multi-pairing that stops after its first point
multi_pairing_first(points, R) == pairing(points[1], R)

\* multi_pairing(points, R) of crypto/mod.rs: the pairings of the points with R
\* multiplied out in Gt, for the two points it is called with
multi_pairing(points, R) == (pairing(points[1], R) + pairing(points[2], R)) % Q

-----------------------------------------------------------------------------
(* crypto/shares.rs *)

\* the result of a call that panicked, and of one that returned v
Panic == [ok |-> FALSE, val |-> <<>>]

Ok(v) == [ok |-> TRUE, val |-> v]

\* cut_tail as written: rposition over the reversed iterator finds, searching
\* from the front of v, the first element equal to elm and returns its index
\* in the reversed order, n - 1 - k (0-based); v is truncated to that length.
cut_tail(v, elm) ==
    LET n == Len(v)
        hits == {k \in 1 .. n : v[k] = elm}
    IN  IF hits = {} THEN v
        ELSE LET k == CHOOSE h \in hits : \A g \in hits : h <= g
             IN  SubSeq(v, 1, n - k)

\* short_mul(a, b): a * (x + b) for a monic a, lowest coefficient first
short_mul(c, b) ==
    [k \in 1 .. Len(c) + 1 |->
        IF k = 1 THEN s_mul(c[1], b)
        ELSE IF k = Len(c) + 1 THEN 1
        ELSE s_add(c[k - 1], s_mul(c[k], b))]

RECURSIVE lx_num_loop(_, _, _, _, _)
\* the loop of lx_num_bar over j (1-based), carrying (num, denum)
lx_num_loop(range, i, j, num, denum) ==
    IF j > Len(range) THEN <<num, denum>>
    ELSE IF j # i
         THEN lx_num_loop(range, i, j + 1, short_mul(num, s_neg(range[j])),
                          s_mul(denum, s_sub(range[i], range[j])))
         ELSE lx_num_loop(range, i, j + 1, num, denum)

\* lx_num_bar(range, i): the numerator polynomial and the barycentric weight;
\* panics (unwrap of none) when the denominator is zero
lx_num_bar(range, i) ==
    LET r == lx_num_loop(range, i, 1, <<1>>, 1)
        inv == invert(r[2])
    IN  IF inv.some THEN Ok(<<r[1], inv.val>>) ELSE Panic

\* Polynomial::rnd(secret, degree): every outcome of the degree random draws
RECURSIVE Polynomial_rnd(_, _)
Polynomial_rnd(secret, degree) ==
    IF degree = 0 THEN {<<secret>>}
    ELSE {Append(p, c) : p \in Polynomial_rnd(secret, degree - 1), c \in Scalars}

RECURSIVE l_i_loop(_, _, _, _, _)
\* the loop of Polynomial::l_i over j (1-based), carrying (num, denum)
l_i_loop(range, i, j, num, denum) ==
    IF j > Len(range) THEN <<num, denum>>
    ELSE IF j # i
         THEN l_i_loop(range, i, j + 1, s_mul(num, range[j]),
                       s_mul(denum, s_sub(range[j], range[i])))
         ELSE l_i_loop(range, i, j + 1, num, denum)

\* l_i with every denominator factor taken as range[i] - range[j], the
\* orientation lx_num_bar uses: the weight changes sign for an odd number of factors
l_i_swapped(range, i) ==
    LET r == lx_num_loop(range, i, 1, <<1>>, 1)
        num == l_i_loop(range, i, 1, 1, 1)[1]
        inv == invert(r[2])
    IN  IF inv.some THEN Ok(s_mul(num, inv.val)) ELSE Panic

\* Polynomial::l_i(range, i); panics when the denominator is zero
l_i(range, i) ==
    LET r == l_i_loop(range, i, 1, 1, 1)
        inv == invert(r[2])
    IN  IF inv.some THEN Ok(s_mul(r[1], inv.val)) ELSE Panic

RECURSIVE horner(_, _, _, _)
\* rev.fold(partial, |partial, coef| partial * x + coef) from position k down
horner(coefs, x, k, partial) ==
    IF k = 0 THEN partial
    ELSE horner(coefs, x, k - 1, s_add(s_mul(partial, x), coefs[k]))

\* Evaluate for Polynomial; panics (unwrap of none) on no coefficients
Polynomial_evaluate(p, x) ==
    IF Len(p) = 0 THEN Panic ELSE Ok(horner(p, x, Len(p) - 1, p[Len(p)]))

\* Polynomial::shares(n), for a non-empty polynomial
Polynomial_shares(p, n) ==
    [j \in 1 .. n |-> [i |-> j, yi |-> Polynomial_evaluate(p, ScalarFrom(j)).val]]

\* Add for Polynomial: the coefficients are zipped
Polynomial_add(p, q) ==
    [k \in 1 .. (IF Len(p) < Len(q) THEN Len(p) ELSE Len(q)) |-> s_add(p[k], q[k])]

\* Add for PointPolynomial: the coefficients are zipped
PointPolynomial_add(pp, qq) ==
    [k \in 1 .. (IF Len(pp) < Len(qq) THEN Len(pp) ELSE Len(qq)) |->
        pt_add(pp[k], qq[k])]

\* Mul<G1Projective> for Polynomial
Polynomial_mul_point(p, P) == [k \in 1 .. Len(p) |-> pt_mul(P, p[k])]

\* Degree for Polynomial
Polynomial_degree(p) == Len(p) - 1

RECURSIVE point_horner(_, _, _, _)
point_horner(coefs, x, k, partial) ==
    IF k = 0 THEN partial
    ELSE point_horner(coefs, x, k - 1, pt_add(pt_mul(partial, x), coefs[k]))

\* Horner's rule folded from the constant term upwards: the coefficients are
\* taken in the wrong order
PointPolynomial_evaluate_forward(pp, x) ==
    LET rev == [k \in 1 .. Len(pp) |-> pp[Len(pp) + 1 - k]]
    IN  IF Len(pp) = 0 THEN Panic
        ELSE Ok(point_horner(rev, x, Len(pp) - 1, rev[Len(pp)]))

\* Evaluate for PointPolynomial; panics on no coefficients
PointPolynomial_evaluate(pp, x) ==
    IF Len(pp) = 0 THEN Panic ELSE Ok(point_horner(pp, x, Len(pp) - 1, pp[Len(pp)]))

\* PointPolynomial::verify(share)
PointPolynomial_verify(pp, share) ==
    LET e == PointPolynomial_evaluate(pp, ScalarFrom(share.i))
    IN  IF e.ok THEN Ok(share.Yi = e.val) ELSE Panic

\* Mul<G1Projective> for ShareVector
ShareVector_mul_point(sv, P) ==
    [k \in 1 .. Len(sv) |-> [i |-> sv[k].i, Yi |-> pt_mul(P, sv[k].yi)]]

\* the x-coordinates of a share vector
range_of(sv) == [k \in 1 .. Len(sv) |-> ScalarFrom(sv[k].i)]

RECURSIVE sv_interpolate_loop(_, _, _, _)
sv_interpolate_loop(sv, range, k, acc) ==
    IF k > Len(sv) THEN Ok(acc)
    ELSE LET l == l_i(range, k)
         IN  IF l.ok
             THEN sv_interpolate_loop(sv, range, k + 1,
                                      s_add(acc, s_mul(l.val, sv[k].yi)))
             ELSE Panic

\* Interpolate for ShareVector
ShareVector_interpolate(sv) == sv_interpolate_loop(sv, range_of(sv), 1, 0)

RECURSIVE psv_interpolate_loop(_, _, _, _)
psv_interpolate_loop(psv, range, k, acc) ==
    IF k > Len(psv) THEN Ok(acc)
    ELSE LET l == l_i(range, k)
         IN  IF l.ok
             THEN psv_interpolate_loop(psv, range, k + 1,
                                       pt_add(acc, pt_mul(psv[k].Yi, l.val)))
             ELSE Panic

\* Interpolate for PointShareVector
\* an interpolation that returns the first share's point, unweighted
PointShareVector_interpolate_first(psv) == Ok(psv[1].Yi)

PointShareVector_interpolate(psv) ==
    psv_interpolate_loop(psv, range_of(psv), 1, identity)

RECURSIVE reconstruct_loop(_, _, _, _)
reconstruct_loop(psv, range, k, acc) ==
    IF k > Len(psv) THEN Ok(acc)
    ELSE LET nb == lx_num_bar(range, k)
         IN  IF nb.ok
             THEN reconstruct_loop(psv, range, k + 1,
                    [j \in 1 .. Len(acc) |->
                        IF j <= Len(nb.val[1])
                        THEN pt_add(acc[j],
                                    pt_mul(psv[k].Yi, s_mul(nb.val[1][j], nb.val[2])))
                        ELSE acc[j]])
             ELSE Panic

\* Reconstruct for PointShareVector
PointShareVector_reconstruct(psv) ==
    LET range == range_of(psv)
        acc == reconstruct_loop(psv, range, 1, [j \in 1 .. Len(range) |-> identity])
    IN  IF acc.ok THEN Ok(cut_tail(acc.val, identity)) ELSE Panic

-----------------------------------------------------------------------------
(* Byte strings and hashing.  A byte string is a sequence over 0 .. 255.   *)
(* The encodings keep their byte order and their flag bits; their widths   *)
(* are scaled to the model's field (a scalar or a point fits one byte).    *)

\* Scalar::to_bytes: little-endian
to_bytes(s) == <<s>>

\* G1Affine::to_compressed: the compression flag, the infinity flag, the point
to_compressed(P) == <<IF P = identity THEN 192 ELSE 128 + P>>

RECURSIVE concat(_)
\* hasher.input(d) for every d of data: the parts are fed one after the other
concat(data) ==
    IF Len(data) = 0 THEN <<>> ELSE Head(data) \o concat(Tail(data))

\* Sha512 over the bytes fed to it, idealised as collision-free: an injective
\* map of the input to a digest
Sha512(input) ==
    [k \in 1 .. Len(input) |-> (167 * input[k] + 13 * k + 1) % 256]

RECURSIVE from_bytes_wide(_)
\* Scalar::from_bytes_wide: the bytes read as a little-endian integer, reduced
\* modulo the field order
from_bytes_wide(bytes) ==
    IF Len(bytes) = 0 THEN 0
    ELSE (Head(bytes) + 256 * from_bytes_wide(Tail(bytes))) % Q

\* hash(parts) of the crate: Sha512 over the parts in order, reduced to a scalar
hash(parts) == from_bytes_wide(Sha512(concat(parts)))

-----------------------------------------------------------------------------
(* crypto/signatures.rs *)

\* the digest hash_c computes: Sha512 over G1, P1, M compressed and the parts
hash_c_digest(G1, P1, M, data) ==
    Sha512(to_compressed(G1) \o to_compressed(P1) \o to_compressed(M)
           \o concat(data))

\* hash_c(G1, P1, M, data).  The digest is a temporary of the `let result`
\* statement; `result` points into it and is read by from_bytes_wide after the
\* temporary is gone.  What the read finds is the digest where its stack slot
\* is left alone and other bytes where the slot is reused, so the outcomes are
\* the intended scalar and the reduction of any 64 bytes: every scalar.
hash_c(G1, P1, M, data) ==
    {from_bytes_wide(hash_c_digest(G1, P1, M, data))} \cup Scalars

\* the nonce of Signature::sign: Sha512 over s and the parts, copied out of the
\* digest before it is dropped
sign_nonce(s, data) == from_bytes_wide(Sha512(to_bytes(s) \o concat(data)))

\* Signature::sign(s, G1, P1, data): the signatures it may return
Signature_sign(s, G1, P1, data) ==
    LET m == sign_nonce(s, data)
        M == pt_mul(G1, m)
    IN  {[c |-> c, p |-> s_sub(m, s_mul(c, s))] : c \in hash_c(G1, P1, M, data)}

\* Signature::verify(G1, P1, data): the verdicts it may return
Signature_verify(sg, G1, P1, data) ==
    LET M == pt_add(pt_mul(P1, sg.c), pt_mul(G1, sg.p))
    IN  {c = sg.c : c \in hash_c(G1, P1, M, data)}

\* ExtSignature::sign(s, G1, P1, data)
ExtSignature_sign(s, G1, P1, data) ==
    {[P1 |-> P1, sig |-> sg] : sg \in Signature_sign(s, G1, P1, data)}

\* ExtSignature::verify(G1, data)
ExtSignature_verify(es, G1, data) == Signature_verify(es.sig, G1, es.P1, data)

-----------------------------------------------------------------------------
(* tatadr.rs: NetworkSetup *)

\* let wall = Duration::from_secs(30)
Wall == 30

\* rnd_scalar() returns any scalar; where every outcome is too many, the
\* random draws are taken from these samples of them: the secrets a, l, r, k
\* from RndSample, the secret y and the higher coefficients of the
\* committee's polynomials from CoefSample, and the nonces ni of one mi_shares call from
\* NonceSample, the nonce of index i being the draw plus i
RndSample == {0, 3}

CoefSample == {3}

NonceSample == {3}

\* str::as_bytes of the names in use
as_bytes(name) ==
    CASE name = "EHR" -> <<69, 72, 82>>
      [] name = "LAB" -> <<76, 65, 66>>
      [] name = "Hospital" -> <<72, 111, 115, 112, 105, 116, 97, 108>>
      [] name = "Clinic" -> <<67, 108, 105, 110, 105, 99>>

\* usize::to_le_bytes
to_le_bytes(n) == <<n % 256, (n \div 256) % 256>>

RECURSIVE fmt_display(_)
\* format!("{}", n) of a usize: its decimal digits
fmt_display(n) ==
    IF n < 10 THEN <<48 + n>> ELSE fmt_display(n \div 10) \o <<48 + (n % 10)>>

\* format!("{:?}", time) of an Instant, a whole number of seconds here
fmt_debug(time) == <<73>> \o fmt_display(time)

\* format!("{}-{:?}", seq, time)
session_id(seq, time) == fmt_display(seq) \o <<45>> \o fmt_debug(time)

\* a remove that leaves the entry in the map
map_remove_nothing(m, k) == m

\* HashMap::insert and HashMap::remove
map_insert(m, k, v) == [x \in DOMAIN m \cup {k} |-> IF x = k THEN v ELSE m[x]]

map_remove(m, k) == [x \in DOMAIN m \ {k} |-> m[x]]

\* Add for ShareVector: the shares are zipped; panics on an index mismatch
ShareVector_add(u, v) ==
    LET n == IF Len(u) < Len(v) THEN Len(u) ELSE Len(v)
    IN  IF \E k \in 1 .. n : u[k].i # v[k].i THEN Panic
        ELSE Ok([k \in 1 .. n |-> [i |-> u[k].i, yi |-> s_add(u[k].yi, v[k].yi)]])

\* an addition that takes the indices of its left operand without comparing them
PointShareVector_add_unchecked(u, v) ==
    LET n == IF Len(u) < Len(v) THEN Len(u) ELSE Len(v)
    IN  Ok([k \in 1 .. n |-> [i |-> u[k].i, Yi |-> pt_add(u[k].Yi, v[k].Yi)]])

\* Add for PointShareVector: the shares are zipped; panics on an index mismatch
PointShareVector_add(u, v) ==
    LET n == IF Len(u) < Len(v) THEN Len(u) ELSE Len(v)
    IN  IF \E k \in 1 .. n : u[k].i # v[k].i THEN Panic
        ELSE Ok([k \in 1 .. n |-> [i |-> u[k].i, Yi |-> pt_add(u[k].Yi, v[k].Yi)]])

\* mi_shares with its indices counted from 0
mi_shares_from_zero(session, Yl, Ar) ==
    {[i \in 1 .. threshold + 1 |->
        [i |-> i - 1,
         yi |-> hash(<<to_bytes(ni[i]), session, to_compressed(Y), Yl, Ar>>)]] :
     ni \in {[i \in 1 .. threshold + 1 |-> (n + i) % Q] : n \in NonceSample}}

\* NetworkSetup::mi_shares(session, Yl, Ar): one hash per committee index over
\* a fresh random ni; every outcome of the draws
mi_shares(session, Yl, Ar) ==
    {[i \in 1 .. threshold + 1 |->
        [i |-> i,
         yi |-> hash(<<to_bytes(ni[i]), session, to_compressed(Y), Yl, Ar>>)]] :
     ni \in {[i \in 1 .. threshold + 1 |-> (n + i) % Q] : n \in NonceSample}}

\* the outcome of a call: the operation, the arguments kept of it, whether it
\* returned, the panic message when it did not, and what it returned
Returned(op, args, val) == [op |-> op, args |-> args, ok |-> TRUE, err |-> "", out |-> val]

Panicked(op, args, msg) == [op |-> op, args |-> args, ok |-> FALSE, err |-> msg, out |-> <<>>]

\* NetworkSetup::new(threshold): G1 and G2A are the generators
NetworkSetup_new(t) ==
    \E y \in CoefSample, a0 \in RndSample :
    \E y_poly \in {p \in Polynomial_rnd(y, t) : \A k \in 2 .. Len(p) : p[k] \in CoefSample} :
    \E a_poly \in {p \in Polynomial_rnd(a0, t) : \A k \in 2 .. Len(p) : p[k] \in CoefSample} :
        /\ threshold = t
        /\ a = a0
        /\ Y = pt_mul(generator, y)
        /\ A1 = pt_mul(generator, a0)
        /\ A2 = pt_mul(generator, a0)
        /\ yi = Polynomial_shares(y_poly, t + 1)
        /\ ai = Polynomial_shares(a_poly, t + 1)
        /\ last = 0
        /\ sessions = <<>> /\ profiles = <<>> /\ locations = <<>>

\* NetworkSetup::location(name, Yl)
location(name, Yl) ==
    /\ locations' = map_insert(locations, name,
                               [Yl |-> Yl, Yl_comp |-> to_compressed(Yl)])
    /\ ret' = Returned("location", <<name>>, <<>>)
    /\ UNCHANGED <<threshold, Y, A1, A2, yi, ai, last, sessions, profiles, now,
                   a, acceptedSeq, nStart, nRequest>>

\* profile without its pairing test of (R, Ar)
profile_unchecked(name, loc, R, Ar) ==
    /\ IF loc \notin DOMAIN locations
       THEN /\ ret' = Panicked("profile", <<name, loc, R, Ar>>, "Location doesn't exist!")
            /\ UNCHANGED profiles
       ELSE /\ profiles' = map_insert(profiles, name,
                   [loc |-> loc, R |-> R, Ar |-> Ar, Ar_comp |-> to_compressed(Ar)])
            /\ ret' = Returned("profile", <<name, loc, R, Ar>>, <<>>)
    /\ UNCHANGED <<threshold, Y, A1, A2, yi, ai, last, sessions, locations, now,
                   a, acceptedSeq, nStart, nRequest>>

\* a profile that does not look its location up
profile_unlocated(name, loc, R, Ar) ==
    /\ IF pairing(Ar, generator) # pairing(R, A2)
       THEN /\ ret' = Panicked("profile", <<name, loc, R, Ar>>, "Ar not valid!")
            /\ UNCHANGED profiles
       ELSE /\ profiles' = map_insert(profiles, name,
                   [loc |-> loc, R |-> R, Ar |-> Ar, Ar_comp |-> to_compressed(Ar)])
            /\ ret' = Returned("profile", <<name, loc, R, Ar>>, <<>>)
    /\ UNCHANGED <<threshold, Y, A1, A2, yi, ai, last, sessions, locations, now,
                   a, acceptedSeq, nStart, nRequest>>

\* a profile whose sessions hold the registry's entry instead of a copy of it:
\* registering again rebinds the sessions in flight
profile_rebinding(name, loc, R, Ar) ==
    /\ IF loc \notin DOMAIN locations
       THEN /\ ret' = Panicked("profile", <<name, loc, R, Ar>>, "Location doesn't exist!")
            /\ UNCHANGED <<profiles, sessions>>
       ELSE IF pairing(Ar, generator) # pairing(R, A2)
       THEN /\ ret' = Panicked("profile", <<name, loc, R, Ar>>, "Ar not valid!")
            /\ UNCHANGED <<profiles, sessions>>
       ELSE LET p == [loc |-> loc, R |-> R, Ar |-> Ar, Ar_comp |-> to_compressed(Ar)]
            IN  /\ profiles' = map_insert(profiles, name, p)
                /\ sessions' = [x \in DOMAIN sessions |->
                                   [sessions[x] EXCEPT !.profile = p]]
                /\ ret' = Returned("profile", <<name, loc, R, Ar>>, <<>>)
    /\ UNCHANGED <<threshold, Y, A1, A2, yi, ai, last, locations, now,
                   a, acceptedSeq, nStart, nRequest>>

\* NetworkSetup::profile(name, loc, R, Ar)
profile(name, loc, R, Ar) ==
    /\ IF loc \notin DOMAIN locations
       THEN /\ ret' = Panicked("profile", <<name, loc, R, Ar>>, "Location doesn't exist!")
            /\ UNCHANGED profiles
       ELSE IF pairing(Ar, generator) # pairing(R, A2)
       THEN /\ ret' = Panicked("profile", <<name, loc, R, Ar>>, "Ar not valid!")
            /\ UNCHANGED profiles
       ELSE /\ profiles' = map_insert(profiles, name,
                   [loc |-> loc, R |-> R, Ar |-> Ar, Ar_comp |-> to_compressed(Ar)])
            /\ ret' = Returned("profile", <<name, loc, R, Ar>>, <<>>)
    /\ UNCHANGED <<threshold, Y, A1, A2, yi, ai, last, sessions, locations, now,
                   a, acceptedSeq, nStart, nRequest>>

\* a start that counts the call before it validates it
start_panicked_after_count(msg) ==
    /\ ret' = Panicked("start", <<>>, msg)
    /\ last' = last + 1
    /\ UNCHANGED <<threshold, Y, A1, A2, yi, ai, sessions, profiles,
                   locations, now, a, acceptedSeq, nStart, nRequest>>

\* the state a start that panicked leaves behind: every panic of start comes
\* before its first write
start_panicked(msg) ==
    /\ ret' = Panicked("start", <<>>, msg)
    /\ UNCHANGED <<threshold, Y, A1, A2, yi, ai, last, sessions, profiles,
                   locations, now, a, acceptedSeq, nStart, nRequest>>

\* a window one second wider at each end
in_ranges_wide(seq, time) ==
    ~(time < now - Wall - 1 \/ time > now + Wall + 1 \/ seq <= last)

\* the window and replay test of start: "seq" and "time" in the correct ranges?
in_ranges(seq, time) == ~(time < now - Wall \/ time > now + Wall \/ seq <= last)

\* a start that stores the accepted seq in the replay counter
start_storing_seq(valid, name, seq, time) ==
    IF ~valid
    THEN start_panicked("Invalid inputs!")
    ELSE IF ~in_ranges(seq, time)
    THEN start_panicked("Invalid inputs!")
    ELSE IF name \notin DOMAIN profiles
    THEN start_panicked("Profile doesn't exist!")
    ELSE IF profiles[name].loc \notin DOMAIN locations
    THEN start_panicked("Location doesn't exist!")
    ELSE LET session == session_id(seq, time)
             prof == profiles[name]
             loc == locations[prof.loc]
         IN  \E mi \in mi_shares(session, loc.Yl_comp, prof.Ar_comp) :
               /\ ret' = Returned("start", <<name, seq, time>>,
                                  <<ShareVector_mul_point(mi, generator),
                                    ShareVector_mul_point(yi, prof.R)>>)
               /\ last' = seq
               /\ sessions' = map_insert(sessions, session, [mi |-> mi, profile |-> prof])
               /\ acceptedSeq' = seq
               /\ nStart' = nStart + 1
               /\ UNCHANGED <<threshold, Y, A1, A2, yi, ai, profiles, locations,
                              now, a, nRequest>>

\* NetworkSetup::start(sig, profile, seq, time), where valid is what
\* sig.verify returned and now is what Instant::now() returns
start(valid, name, seq, time) ==
    IF ~valid
    THEN start_panicked("Invalid inputs!")
    ELSE IF ~in_ranges(seq, time)
    THEN start_panicked("Invalid inputs!")
    ELSE IF name \notin DOMAIN profiles
    THEN start_panicked("Profile doesn't exist!")
    ELSE IF profiles[name].loc \notin DOMAIN locations
    THEN start_panicked("Location doesn't exist!")
    ELSE LET session == session_id(seq, time)
             prof == profiles[name]
             loc == locations[prof.loc]
         IN  \E mi \in mi_shares(session, loc.Yl_comp, prof.Ar_comp) :
               /\ ret' = Returned("start", <<name, seq, time>>,
                                  <<ShareVector_mul_point(mi, generator),
                                    ShareVector_mul_point(yi, prof.R)>>)
               /\ last' = last + 1
               /\ sessions' = map_insert(sessions, session, [mi |-> mi, profile |-> prof])
               /\ acceptedSeq' = seq
               /\ nStart' = nStart + 1
               /\ UNCHANGED <<threshold, Y, A1, A2, yi, ai, profiles, locations,
                              now, a, nRequest>>

\* what Option::unwrap panics with on None: sessions.remove(session) found no
\* session under the id
UnwrapNone == "called Option::unwrap() on a None value"

\* a request that takes the session out of the map before it tests (Akc, Kc)
request_consuming_first(session, Akc, Kc) ==
    /\ IF session \notin DOMAIN sessions
       THEN /\ ret' = Panicked("request", <<session, Akc, Kc>>, UnwrapNone)
            /\ UNCHANGED <<sessions, nRequest>>
       ELSE /\ sessions' = map_remove(sessions, session)
            /\ IF pairing(Akc, generator) # pairing(Kc, A2)
               THEN /\ ret' = Panicked("request", <<session, Akc, Kc>>, "Akc not valid!")
                    /\ UNCHANGED nRequest
               ELSE /\ ret' = Returned("request", <<session, Akc, Kc>>,
                                 PointShareVector_add(
                                     ShareVector_mul_point(yi, sessions[session].profile.Ar),
                                     ShareVector_mul_point(sessions[session].mi, Akc)).val)
                    /\ nRequest' = nRequest + 1
    /\ UNCHANGED <<threshold, Y, A1, A2, yi, ai, last, profiles, locations, now,
                   a, acceptedSeq, nStart>>

\* NetworkSetup::request(session, Akc, Kc)
request(session, Akc, Kc) ==
    /\ IF pairing(Akc, generator) # pairing(Kc, A2)
       THEN /\ ret' = Panicked("request", <<session, Akc, Kc>>, "Akc not valid!")
            /\ UNCHANGED <<sessions, nRequest>>
       ELSE IF session \notin DOMAIN sessions
       THEN /\ ret' = Panicked("request", <<session, Akc, Kc>>, UnwrapNone)
            /\ UNCHANGED <<sessions, nRequest>>
       ELSE LET s == sessions[session]
                Tki == PointShareVector_add(ShareVector_mul_point(yi, s.profile.Ar),
                                            ShareVector_mul_point(s.mi, Akc))
            IN  /\ sessions' = map_remove(sessions, session)
                /\ IF Tki.ok
                   THEN /\ ret' = Returned("request", <<session, Akc, Kc>>, Tki.val)
                        /\ nRequest' = nRequest + 1
                   ELSE /\ ret' = Panicked("request", <<session, Akc, Kc>>,
                                           "Shares must be in the same order")
                        /\ UNCHANGED nRequest
    /\ UNCHANGED <<threshold, Y, A1, A2, yi, ai, last, profiles, locations, now,
                   a, acceptedSeq, nStart>>

\* Token::new(k, Tk, M, PI): the tokens it may return.  ExtSignature::sign is
\* called on (k, M, data); the public key it signs with is Mk = M*k, the one
\* Token::verify reads back from sig.P1
Token_new(k, Tk, M, PI) ==
    {[Tk |-> Tk, M |-> M, PI |-> PI, sig |-> es] :
        es \in ExtSignature_sign(k, M, pt_mul(M, k),
                                 <<to_compressed(Tk), to_compressed(PI)>>)}

\* Token::verify(setup): what self.sig.verify may return in it, each with the
\* verdict of Token::verify that follows
Token_verify_runs(token) ==
    LET data == <<to_compressed(token.Tk), to_compressed(token.PI)>>
        c == hash(<<to_compressed(token.M), to_compressed(token.sig.P1),
                    to_compressed(token.PI)>>)
    IN  {[sigOk |-> sigOk,
          res |-> IF ~sigOk THEN FALSE
                  ELSE pairing(token.Tk, generator)
                         = multi_pairing(<<token.PI, pt_mul(token.sig.P1, c)>>, A2)] :
         sigOk \in ExtSignature_verify(token.sig, token.M, data)}

\* Token::verify(setup): the verdicts it may return
Token_verify(token) == {run.res : run \in Token_verify_runs(token)}

-----------------------------------------------------------------------------
(* The share algebra under test: tests::interpolation of crypto/shares.rs, *)
(* for every polynomial of degree 0 .. MaxDegree and every generator.      *)

\* the variables of the other components, at rest
SigIdle == sigIn = <<>> /\ sig = <<>> /\ verdict = <<>>

NetIdle ==
    /\ threshold = 0 /\ Y = 0 /\ A1 = 0 /\ A2 = 0 /\ yi = <<>> /\ ai = <<>>
    /\ last = 0 /\ sessions = <<>> /\ profiles = <<>> /\ locations = <<>>
    /\ now = 0 /\ ret = <<>> /\ a = 0 /\ acceptedSeq = 0 /\ nStart = 0
    /\ nRequest = 0

CliIdle == pc = "idle" /\ cli = <<>>

AlgIdle == poly = <<>> /\ gen = 0 /\ out = <<>>

\* let poly = Polynomial::rnd(s, threshold), for every s and every random draw
Polynomials ==
    UNION {Polynomial_rnd(s, t) : s \in Scalars, t \in 0 .. MaxDegree}

\* poly.shares(parties) with parties = threshold + 1
shares == Polynomial_shares(poly, Polynomial_degree(poly) + 1)

\* the PointShares offered to verify: the genuine share of index i with at most
\* one coordinate altered (indices as u32 below the field order)
Offered(i) ==
    LET genuine == ShareVector_mul_point(shares, gen)[i]
    IN  {genuine}
        \cup {[genuine EXCEPT !.i = j] : j \in 0 .. Q - 1}
        \cup {[genuine EXCEPT !.Yi = P] : P \in G1Points}

AlgInit ==
    /\ poly \in Polynomials
    /\ gen \in G1Points \ {identity}
    /\ out = [op |-> "new", arg |-> <<>>, res |-> Ok(<<>>)]
    /\ SigIdle /\ NetIdle /\ CliIdle

\* each run of the test calls one operation on the fresh values (out.op = "new")

\* shares.interpolate()
AlgInterpolate ==
    /\ out.op = "new"
    /\ out' = [op |-> "interpolate", arg |-> <<>>,
               res |-> ShareVector_interpolate(shares)]
    /\ UNCHANGED <<poly, gen, sigVars, netVars, cliVars>>

\* (shares * G1).reconstruct()
AlgReconstruct ==
    /\ out.op = "new"
    /\ out' = [op |-> "reconstruct", arg |-> <<>>,
               res |-> PointShareVector_reconstruct(ShareVector_mul_point(shares, gen))]
    /\ UNCHANGED <<poly, gen, sigVars, netVars, cliVars>>

\* (poly * G1).verify(share)
AlgVerify ==
    /\ out.op = "new"
    /\ \E i \in 1 .. Len(shares) : \E sh \in Offered(i) :
         out' = [op |-> "verify", arg |-> <<i, sh>>,
                 res |-> PointPolynomial_verify(Polynomial_mul_point(poly, gen), sh)]
    /\ UNCHANGED <<poly, gen, sigVars, netVars, cliVars>>

\* the share vectors with a repeated index: the shares with the index at
\* position k replaced by the index at another position j
Duplicated ==
    {[shares EXCEPT ![kj[1]].i = shares[kj[2]].i] :
        kj \in {x \in (1 .. Len(shares)) \X (1 .. Len(shares)) : x[1] # x[2]}}

\* interpolate and reconstruct on a vector, plain or lifted, with a repeated index
AlgDuplicate ==
    /\ out.op = "new"
    /\ \E sv \in Duplicated :
       \E call \in {[op |-> "interpolate_dup", arg |-> sv,
                      res |-> ShareVector_interpolate(sv)],
                     [op |-> "point_interpolate_dup", arg |-> sv,
                      res |-> PointShareVector_interpolate(
                                  ShareVector_mul_point(sv, gen))],
                     [op |-> "reconstruct_dup", arg |-> sv,
                      res |-> PointShareVector_reconstruct(
                                  ShareVector_mul_point(sv, gen))]} :
         out' = call
    /\ UNCHANGED <<poly, gen, sigVars, netVars, cliVars>>

\* the vectors added to the shares: the shares plus a scalar (&ShareVector +
\* &Scalar), whole, without their last share, or with one index raised by one
Addends ==
    LET shifted(c) == [k \in 1 .. Len(shares) |->
                          [i |-> shares[k].i, yi |-> s_add(shares[k].yi, c)]]
    IN  UNION {{shifted(c), SubSeq(shifted(c), 1, Len(shares) - 1)}
               \cup {[shifted(c) EXCEPT ![k].i = shares[k].i + 1] :
                        k \in 1 .. Len(shares)} :
               c \in CoefSample}

\* &shares + &v, and the same sum of the lifted vectors
AlgAdd ==
    /\ out.op = "new"
    /\ \E v \in Addends :
       \E call \in {[op |-> "add", arg |-> <<shares, v>>,
                      res |-> ShareVector_add(shares, v)],
                     [op |-> "point_add",
                      arg |-> <<ShareVector_mul_point(shares, gen),
                                ShareVector_mul_point(v, gen)>>,
                      res |-> PointShareVector_add(ShareVector_mul_point(shares, gen),
                                                   ShareVector_mul_point(v, gen))]} :
         out' = call
    /\ UNCHANGED <<poly, gen, sigVars, netVars, cliVars>>

\* poly.shares(parties + 1): one share more than the degree needs
more_shares == Polynomial_shares(poly, Polynomial_degree(poly) + 2)

\* (more_shares * G1).reconstruct()
AlgReconstructMore ==
    /\ out.op = "new"
    /\ out' = [op |-> "reconstruct_more", arg |-> <<>>,
               res |-> PointShareVector_reconstruct(
                           ShareVector_mul_point(more_shares, gen))]
    /\ UNCHANGED <<poly, gen, sigVars, netVars, cliVars>>

\* share vectors with distinct indices: the shares, one share more, and the
\* shares with one index moved to an index none of them carries
Distinct ==
    {shares, more_shares}
    \cup {[shares EXCEPT ![k].i = j] :
            k \in 1 .. Len(shares),
            j \in (0 .. Q - 1) \ {shares[n].i : n \in 1 .. Len(shares)}}

\* (sv * G1).interpolate() next to sv.interpolate()
AlgLift ==
    /\ out.op = "new"
    /\ \E sv \in Distinct :
         out' = [op |-> "lift", arg |-> <<sv>>,
                 res |-> <<PointShareVector_interpolate(ShareVector_mul_point(sv, gen)),
                           ShareVector_interpolate(sv)>>]
    /\ UNCHANGED <<poly, gen, sigVars, netVars, cliVars>>

\* (&yi * Ar + &mi * Akc).interpolate(), the sum request returns, for yi the
\* shares and mi a vector on the same indices
AlgLiftSum ==
    /\ out.op = "new"
    /\ \E c \in RndSample, Akc \in G1Points :
         LET mi == [k \in 1 .. Len(shares) |->
                       [i |-> shares[k].i, yi |-> s_add(shares[k].yi, c)]]
             Tki == PointShareVector_add(ShareVector_mul_point(shares, gen),
                                         ShareVector_mul_point(mi, Akc))
         IN  out' = [op |-> "lift_sum", arg |-> <<mi, Akc>>,
                     res |-> <<PointShareVector_interpolate(Tki.val),
                               ShareVector_interpolate(shares),
                               ShareVector_interpolate(mi)>>]
    /\ UNCHANGED <<poly, gen, sigVars, netVars, cliVars>>

\* the polynomials added to poly: of every degree 0 .. MaxDegree, the constant
\* term from RndSample and the higher coefficients from CoefSample
Summands ==
    {q \in UNION {Polynomial_rnd(s, t) : s \in RndSample, t \in 0 .. MaxDegree} :
        \A k \in 2 .. Len(q) : q[k] \in CoefSample}

\* &poly + &q, and the same sum of the two polynomials lifted by G1
AlgPolyAdd ==
    /\ out.op = "new"
    /\ \E q \in Summands :
       \E call \in {[op |-> "poly_add", arg |-> <<poly, q>>,
                      res |-> Ok(Polynomial_add(poly, q))],
                     [op |-> "point_poly_add",
                      arg |-> <<Polynomial_mul_point(poly, gen),
                                Polynomial_mul_point(q, gen)>>,
                      res |-> Ok(PointPolynomial_add(Polynomial_mul_point(poly, gen),
                                                     Polynomial_mul_point(q, gen)))]} :
         out' = call
    /\ UNCHANGED <<poly, gen, sigVars, netVars, cliVars>>

AlgNext ==
    \/ AlgInterpolate \/ AlgReconstruct \/ AlgVerify \/ AlgDuplicate \/ AlgAdd
    \/ AlgReconstructMore \/ AlgLift \/ AlgLiftSum \/ AlgPolyAdd

SpecAlg == AlgInit /\ [][AlgNext]_vars

-----------------------------------------------------------------------------
(* Claims about the share algebra, checked under SpecAlg *)

\* C7: interpolating the t+1 shares of Polynomial::rnd(s, t) returns exactly s,
\* whatever the t higher coefficients are.
C7_InterpolateRecoversSecret ==
    out.op = "interpolate" => out.res = Ok(poly[1])

C7_Witness ==
    /\ out.op = "interpolate"
    /\ Polynomial_degree(poly) = 2
    /\ poly[1] # 0 /\ poly[2] # 0 /\ poly[3] # 0
    /\ out.res = Ok(poly[1])

\* C8: reconstructing from the t+1 lifted shares of a polynomial of degree t
\* (leading coefficient not zero) returns the committed coefficients
\* a_0*G .. a_t*G, position by position and in length, also when some other
\* coefficient is zero.
C8_ReconstructReturnsCommitted ==
    (out.op = "reconstruct" /\ poly[Len(poly)] # 0) =>
        out.res = Ok(Polynomial_mul_point(poly, gen))

\* the genuine PointShare of index i and what the committed polynomial takes at x
GenuineShare(i) == ShareVector_mul_point(shares, gen)[i]

CommittedAt(x) == pt_mul(gen, Polynomial_evaluate(poly, ScalarFrom(x)).val)

\* C9 as stated: verify accepts every genuine PointShare and rejects every
\* PointShare that differs from a genuine one in exactly one coordinate, the
\* index alone or the point alone.
C9_VerifyRejectsAnyAlteration ==
    out.op = "verify" =>
        /\ out.res.ok
        /\ out.res.val <=> (out.arg[2] = GenuineShare(out.arg[1]))

\* C9 as amended: verify accepts every genuine PointShare and rejects every
\* PointShare whose point alone is altered; a PointShare whose index alone is
\* altered to j is rejected exactly when p(j)*G differs from the point it carries.
C9_VerifyAcceptsMatchingPoint ==
    out.op = "verify" =>
        LET i == out.arg[1]
            sh == out.arg[2]
        IN  /\ out.res.ok
            /\ sh = GenuineShare(i) => out.res.val
            /\ (sh.i = i /\ sh.Yi # GenuineShare(i).Yi) => ~out.res.val
            /\ (sh.i # i /\ sh.Yi = GenuineShare(i).Yi) =>
                   (out.res.val <=> CommittedAt(sh.i) = GenuineShare(i).Yi)

\* a share of a polynomial of degree 2 with its index alone altered, accepted
C9_Witness ==
    /\ out.op = "verify"
    /\ Polynomial_degree(poly) = 2 /\ poly[3] # 0
    /\ out.arg[2].i # out.arg[1]
    /\ out.arg[2].Yi = GenuineShare(out.arg[1]).Yi
    /\ out.res = Ok(TRUE)

\* C13: ShareVector::interpolate, PointShareVector::interpolate and
\* PointShareVector::reconstruct return no value on a vector of two or more
\* shares in which two shares carry the same index.
C13_DuplicateIndexRejected ==
    out.op \in {"interpolate_dup", "point_interpolate_dup", "reconstruct_dup"}
        => ~out.res.ok

\* reconstruct refused on three shares of which the last two carry one index
C13_Witness ==
    /\ out.op = "reconstruct_dup"
    /\ Len(out.arg) = 3 /\ out.arg[2].i = out.arg[3].i /\ out.arg[1].i # out.arg[2].i
    /\ ~out.res.ok

RECURSIVE TrimmedTail(_)
\* v without its maximal suffix of identity elements
TrimmedTail(v) ==
    IF Len(v) > 0 /\ v[Len(v)] = identity
    THEN TrimmedTail(SubSeq(v, 1, Len(v) - 1)) ELSE v

\* C17: reconstruct returns the accumulated coefficients without their
\* trailing run of identities and removes nothing else: from t+1 and from
\* t+2 genuine shares of a polynomial it returns the committed coefficients
\* up to the last one that is not the identity, an identity at a position
\* before that one included.
C17_ReconstructTrimsTrailingOnly ==
    out.op \in {"reconstruct", "reconstruct_more"} =>
        out.res = Ok(TrimmedTail(Polynomial_mul_point(poly, gen)))

\* C18: for every ShareVector sv with distinct indices and every point G,
\* (sv * G).interpolate() = G * sv.interpolate(); the lifted shares of a
\* sharing of s interpolate to s*G; and (yi*Ar + mi*Akc).interpolate() =
\* y*Ar + m*Akc for y and m the interpolations of yi and mi.
C18_InterpolateCommutesWithLift ==
    /\ out.op = "lift" =>
          /\ out.res[1].ok /\ out.res[2].ok
          /\ out.res[1].val = (gen * out.res[2].val) % Q
          /\ out.arg[1] \in {shares, more_shares} =>
                out.res[1].val = (gen * poly[1]) % Q
    /\ out.op = "lift_sum" =>
          /\ out.res[1].ok /\ out.res[2].ok /\ out.res[3].ok
          /\ out.res[1].val =
                (gen * out.res[2].val + out.arg[2] * out.res[3].val) % Q

\* three shares, one of them moved to index 0, lifted to a point that is not
\* the generator
C18_Witness ==
    /\ out.op = "lift" /\ Len(out.arg[1]) = 3 /\ gen # generator
    /\ \E k \in 1 .. 3 : out.arg[1][k].i = 0
    /\ out.res[2].val # 0
    /\ out.res[1].val = (gen * out.res[2].val) % Q

\* the positions two added vectors share
Zipped == 1 .. (IF Len(out.arg[1]) < Len(out.arg[2])
                THEN Len(out.arg[1]) ELSE Len(out.arg[2]))

\* C14: the sum of two ShareVectors, or of two PointShareVectors, fails when at
\* some position the two shares carry different indices; otherwise it has, at
\* each position, the index of both and the sum of the two values.  The
\* operands are as they were.
C14_AddAlignsIndices ==
    out.op \in {"add", "point_add"} =>
        LET u == out.arg[1]
            v == out.arg[2]
        IN  /\ u = (IF out.op = "add" THEN shares
                    ELSE ShareVector_mul_point(shares, gen))
            /\ IF \E k \in Zipped : u[k].i # v[k].i
               THEN ~out.res.ok
               ELSE /\ out.res.ok
                    /\ DOMAIN out.res.val = Zipped
                    /\ \A k \in Zipped :
                         /\ out.res.val[k].i = u[k].i
                         /\ out.op = "add" =>
                               out.res.val[k].yi = (u[k].yi + v[k].yi) % Q
                         /\ out.op = "point_add" =>
                               out.res.val[k].Yi = (u[k].Yi + v[k].Yi) % Q

\* three lifted shares added to three whose last index differs: refused
C14_Witness ==
    /\ out.op = "point_add" /\ ~out.res.ok
    /\ Len(out.arg[1]) = 3 /\ Len(out.arg[2]) = 3
    /\ out.arg[1][1].i = out.arg[2][1].i /\ out.arg[1][2].i = out.arg[2][2].i
    /\ out.arg[1][3].i # out.arg[2][3].i

\* the longer of the two operands of the last call, in shares or coefficients
LongerLen ==
    IF Len(out.arg[1]) < Len(out.arg[2]) THEN Len(out.arg[2]) ELSE Len(out.arg[1])

\* C25: for any two non-empty polynomials p and q of any lengths and every x,
\* (p + q).evaluate(x) = p.evaluate(x) + q.evaluate(x) and (p + q).shares(n) =
\* p.shares(n) + q.shares(n), and likewise for PointPolynomials; the sum of
\* two ShareVectors of different lengths drops no share.
C25_AddAgreesWithEvaluation ==
    /\ out.op = "poly_add" =>
          LET p == out.arg[1]
              q == out.arg[2]
              n == LongerLen
          IN  /\ \A x \in Scalars :
                    Polynomial_evaluate(out.res.val, x).val =
                        s_add(Polynomial_evaluate(p, x).val,
                              Polynomial_evaluate(q, x).val)
              /\ Polynomial_shares(out.res.val, n) =
                    ShareVector_add(Polynomial_shares(p, n), Polynomial_shares(q, n)).val
    /\ out.op = "point_poly_add" =>
          \A x \in Scalars :
              PointPolynomial_evaluate(out.res.val, x).val =
                  pt_add(PointPolynomial_evaluate(out.arg[1], x).val,
                         PointPolynomial_evaluate(out.arg[2], x).val)
    /\ (out.op \in {"add", "point_add"} /\ out.res.ok) =>
          Len(out.res.val) = LongerLen

-----------------------------------------------------------------------------
(* The signatures under test: tests::correct and tests::incorrect of       *)
(* crypto/signatures.rs, for every secret, generator, key and message.     *)

\* the lists of message parts signed and verified: those of the tests, two
\* splits of the same bytes, no parts, and two (profile, seq, time) of start
DataLists ==
    {<< <<1>>, <<2>> >>, << <<1>>, <<3>> >>, << <<1, 2>>, <<3>> >>,
     << <<1>>, <<2, 3>> >>, << >>,
     <<as_bytes("EHR"), to_le_bytes(1), fmt_debug(Wall)>>,
     <<as_bytes("EHR"), to_le_bytes(2), fmt_debug(Wall)>>}

SigInit ==
    /\ sigIn \in [s : Scalars, G1 : G1Points, P1 : G1Points, data : DataLists]
    /\ sig = <<>>
    /\ verdict = [op |-> "new", data |-> <<>>, res |-> FALSE]
    /\ AlgIdle /\ NetIdle /\ CliIdle

\* let sig = ExtSignature::sign(&s, &G1, Ps, data)
SigSign ==
    /\ sig = <<>>
    /\ sig' \in ExtSignature_sign(sigIn.s, sigIn.G1, sigIn.P1, sigIn.data)
    /\ UNCHANGED <<sigIn, verdict, algVars, netVars, cliVars>>

\* sig.verify(&G1, data) against the parts signed or against other parts
SigVerify ==
    /\ sig # <<>> /\ verdict.op = "new"
    /\ \E data \in DataLists : \E res \in ExtSignature_verify(sig, sigIn.G1, data) :
         verdict' = [op |-> "verify", data |-> data, res |-> res]
    /\ UNCHANGED <<sigIn, sig, algVars, netVars, cliVars>>

\* the signature with its c or its p replaced by another scalar, verified
\* against the parts signed
SigVerifyAltered ==
    /\ sig # <<>> /\ verdict.op = "new"
    /\ \E x \in Scalars :
       \E alt \in {[sig EXCEPT !.sig.c = x], [sig EXCEPT !.sig.p = x]} :
         /\ alt # sig
         /\ \E res \in ExtSignature_verify(alt, sigIn.G1, sigIn.data) :
              verdict' = [op |-> "verify_altered", data |-> sigIn.data,
                          res |-> res]
    /\ UNCHANGED <<sigIn, sig, algVars, netVars, cliVars>>

SigNext == SigSign \/ SigVerify \/ SigVerifyAltered

SpecSig == SigInit /\ [][SigNext]_vars

C12_ExtSignatureEmbedsOwnKey ==
    sig # <<>> => sig.P1 = pt_mul(sigIn.G1, sigIn.s)

C24_SignatureBindsPartList ==
    (/\ verdict.op = "verify"
     /\ sigIn.G1 # identity /\ sigIn.P1 = pt_mul(sigIn.G1, sigIn.s)
     /\ verdict.data # sigIn.data) => ~verdict.res

-----------------------------------------------------------------------------
(* The committee under arbitrary calls of its clients *)

\* the names clients use, and those among them that get registered
LocNames == {"Hospital", "Clinic"}

ProfileNames == {"EHR", "LAB"}

Registered == {"Hospital", "EHR"}

\* the reading of the committee's clock: the calls fall within one second of it
Boot == Wall + 1

\* the secret key of the client that signs the start calls
ClientKeys == {3}

\* the timestamps clients send: the ends of the window and the seconds next to them
Timestamps == {Boot - Wall - 1, Boot - Wall, Boot + Wall, Boot + Wall + 1}

\* the message parts start verifies the signature over
start_data(name, seq, time) == <<as_bytes(name), to_le_bytes(seq), fmt_debug(time)>>

\* the signatures offered to start with (name, seq, time): a client's
\* signature over exactly these parts, and a forged one
StartSigs(name, seq, time) ==
    UNION {ExtSignature_sign(st, generator, pt_mul(generator, st),
                             start_data(name, seq, time)) : st \in ClientKeys}
    \cup {[P1 |-> generator, sig |-> [c |-> 0, p |-> 0]]}

\* what sig.verify may return in start, for each (name, seq, time) and the
\* signatures offered with them
StartVerdicts ==
    [name \in ProfileNames, seq \in 0 .. MaxStarts, time \in Timestamps |->
        UNION {ExtSignature_verify(es, generator, start_data(name, seq, time)) :
               es \in StartSigs(name, seq, time)}]

\* the session ids a client asks with: those in flight, the one it used in
\* its last request, and one that was never started
AskedSessions ==
    DOMAIN sessions
    \cup (IF ret.op = "request" THEN {ret.args[1]} ELSE {})
    \cup {session_id(0, 0)}

Init ==
    /\ \E t \in 0 .. MaxThreshold : NetworkSetup_new(t)
    /\ now = Boot
    /\ ret = Returned("new", <<>>, <<>>)
    /\ acceptedSeq = 0 /\ nStart = 0 /\ nRequest = 0
    /\ AlgIdle /\ SigIdle /\ CliIdle

CallLocation ==
    /\ \E name \in LocNames \cap Registered, l \in RndSample :
         location(name, pt_mul(Y, l))
    /\ UNCHANGED <<algVars, sigVars, cliVars>>

CallProfile ==
    /\ \E name \in ProfileNames \cap Registered, loc \in LocNames :
       \E r \in RndSample, d \in {0, 1} :
         profile(name, loc, pt_mul(generator, r),
                 pt_add(pt_mul(A1, r), pt_mul(generator, d)))
    /\ UNCHANGED <<algVars, sigVars, cliVars>>

CallStart ==
    /\ last < MaxStarts
    /\ \E name \in ProfileNames, seq \in 0 .. MaxStarts, time \in Timestamps :
       \E valid \in StartVerdicts[name, seq, time] :
         /\ Cardinality(DOMAIN sessions \cup {session_id(seq, time)}) <= MaxSessions
         /\ start(valid, name, seq, time)
    /\ UNCHANGED <<algVars, sigVars, cliVars>>

CallRequest ==
    /\ \E session \in AskedSessions, kc \in ClientKeys, d \in {0, 1} :
         request(session, pt_add(pt_mul(A1, kc), pt_mul(generator, d)),
                 pt_mul(generator, kc))
    /\ UNCHANGED <<algVars, sigVars, cliVars>>

Next == CallLocation \/ CallProfile \/ CallStart \/ CallRequest

Spec == Init /\ [][Next]_vars

-----------------------------------------------------------------------------
(* Claims about the committee, checked under Spec *)

\* C2: over any sequence of start calls a start is accepted only if its seq is
\* strictly greater than the seq of the last accepted start; of two starts
\* carrying the same seq the second one fails.
C2_AcceptedSeqStrictlyIncreases ==
    [][nStart' # nStart => ret'.args[2] > acceptedSeq]_vars

\* the step is a call of request (every call leaves its outcome in ret)
RequestStep == ret'.op = "request"

\* the step is a request on the session id that the call before it, a request
\* that succeeded, was on
SecondRequestStep ==
    /\ ret.op = "request" /\ ret.ok
    /\ RequestStep /\ ret'.args[1] = ret.args[1]

\* C3 as stated: a request that succeeds removes its session from the session
\* map; a second request on that session id, with no start in between, fails
\* with SessionNotFound and returns no shares; no more requests succeed than
\* starts did.
C3_SecondRequestSessionNotFound ==
    /\ [](nRequest <= nStart)
    /\ [][RequestStep => (ret'.ok => ret'.args[1] \notin DOMAIN sessions')]_vars
    /\ [][SecondRequestStep =>
            (~ret'.ok /\ ret'.out = <<>> /\ ret'.err = UnwrapNone)]_vars

\* C3 as amended: a request that succeeds was on a session of the map and
\* removes it; a request on a session id that is not in the map (a second
\* request on a completed session among them) returns no shares, failing with
\* SessionNotFound when its (Akc, Kc) pass the pairing test and with
\* "Akc not valid!" when they do not; no more requests succeed than starts did.
C3_RequestOneShot ==
    /\ [](nRequest <= nStart)
    /\ [][RequestStep =>
            /\ ret'.ok => (/\ ret'.args[1] \in DOMAIN sessions
                           /\ ret'.args[1] \notin DOMAIN sessions'
                           /\ nRequest' = nRequest + 1)
            /\ ret'.args[1] \notin DOMAIN sessions =>
                  /\ ~ret'.ok /\ ret'.out = <<>> /\ nRequest' = nRequest
                  /\ ret'.err =
                        IF pairing(ret'.args[2], generator) = pairing(ret'.args[3], A2)
                        THEN UnwrapNone ELSE "Akc not valid!"]_vars

\* a second request, with a valid (Akc, Kc), on a session that a request completed
C3_Witness ==
    /\ ret.op = "request" /\ ~ret.ok /\ ret.err = UnwrapNone
    /\ ret.args[1] # session_id(0, 0)
    /\ nRequest >= 1

\* C4: a start that fails a validation (signature, window, seq, profile name)
\* leaves the replay counter, the session map and both registries as they were.
C4_FailedStartPersistsNothing ==
    [][(ret'.op = "start" /\ ~ret'.ok) =>
          UNCHANGED <<last, sessions, profiles, locations>>]_vars

\* a start that failed its last validation, with a counter and a session to keep
C4_Witness ==
    /\ ret.op = "start" /\ ~ret.ok /\ ret.err = "Profile doesn't exist!"
    /\ last > 0 /\ sessions # <<>>

\* C5: a start is accepted only with now - 30s <= timestamp <= now + 30s, so
\* every start with a timestamp outside the window fails.
C5_AcceptedStartInWindow ==
    (ret.op = "start" /\ ret.ok) =>
        (now - Wall <= ret.args[3] /\ ret.args[3] <= now + Wall)

\* a start accepted with its timestamp on the lower end of the window
C5_Witness ==
    ret.op = "start" /\ ret.ok /\ ret.args[3] = now - Wall

\* C6: profile fails on an unregistered location and on a pair (R, Ar) with
\* pairing(Ar, G2) # pairing(R, A2), leaving the registry unchanged; every
\* profile of the registry and every copy held by a session has Ar = a*R.
C6_ProfileValidated ==
    /\ [](\A n \in DOMAIN profiles : profiles[n].Ar = pt_mul(profiles[n].R, a))
    /\ [](\A x \in DOMAIN sessions :
            sessions[x].profile.Ar = pt_mul(sessions[x].profile.R, a))
    /\ [][ret'.op = "profile" =>
            ((\/ ret'.args[2] \notin DOMAIN locations
              \/ pairing(ret'.args[4], generator) # pairing(ret'.args[3], A2)) =>
                (~ret'.ok /\ profiles' = profiles))]_vars

\* a profile call refused for its pair (R, Ar) while a validated profile is
\* registered and a session holds a copy
C6_Witness ==
    /\ ret.op = "profile" /\ ~ret.ok /\ ret.err = "Ar not valid!"
    /\ profiles # <<>> /\ sessions # <<>>

\* C16: a request whose (Akc, Kc) fail pairing(Akc, G2) = pairing(Kc, A2)
\* fails with "Akc not valid!", on a known and on an unknown session id, and
\* leaves the session map as it was; a request with a valid pair on a session
\* of the map, one that an invalid request was made on before included, succeeds.
C16_RequestValidatesBeforeConsuming ==
    [][RequestStep =>
         LET valid == pairing(ret'.args[2], generator) = pairing(ret'.args[3], A2)
         IN  /\ ~valid => (/\ ~ret'.ok /\ ret'.err = "Akc not valid!"
                           /\ sessions' = sessions)
             /\ (valid /\ ret'.args[1] \in DOMAIN sessions) =>
                   (ret'.ok /\ ret'.args[1] \notin DOMAIN sessions')]_vars

\* a request with an invalid pair refused while its session stays in the map
C16_Witness ==
    /\ ret.op = "request" /\ ~ret.ok /\ ret.err = "Akc not valid!"
    /\ ret.args[1] \in DOMAIN sessions

\* C19: last starts at 0, grows by exactly 1 on every successful start and is
\* unchanged by every other call, so it always equals the number of
\* successful starts (and not the accepted seq).
C19_LastCountsSuccessfulStarts ==
    /\ [](last = nStart)
    /\ [][last' = IF ret'.op = "start" /\ ret'.ok THEN last + 1 ELSE last]_vars

\* a start accepted with seq 2 that leaves the counter at 1
C19_Witness ==
    ret.op = "start" /\ ret.ok /\ ret.args[2] = 2 /\ last = 1

\* C20: an accepted start never replaces a session of the map, so the map
\* holds as many sessions as starts succeeded minus requests that succeeded.
C20_SessionsCountStartsMinusRequests ==
    Cardinality(DOMAIN sessions) = nStart - nRequest

\* the shares request computes from the values v of a session and Akc
TkiOf(v, Akc) ==
    PointShareVector_add(ShareVector_mul_point(yi, v.profile.Ar),
                         ShareVector_mul_point(v.mi, Akc)).val

\* the sessions a start on the profile name under the id sid would store now,
\* from the registry's current entries
BoundNow(name, sid) ==
    {[mi |-> mi, profile |-> profiles[name]] :
        mi \in mi_shares(sid, locations[profiles[name].loc].Yl_comp,
                         profiles[name].Ar_comp)}

\* C21: a session is bound to the profile as it was at start.  An accepted
\* start stores, under its id, a copy of the profile registered at that time
\* and the mi computed from it and from its location; registering a location
\* or a profile again changes no stored session; and request returns
\* yi*Ar + mi*Akc for the Ar and the mi stored in the session, not for the
\* registry's current values.
C21_SessionBoundAtStart ==
    /\ [][(ret'.op = "start" /\ ret'.ok) =>
            LET sid == session_id(ret'.args[2], ret'.args[3])
            IN  /\ sessions'[sid] \in BoundNow(ret'.args[1], sid)
                /\ \A x \in DOMAIN sessions \ {sid} :
                      x \in DOMAIN sessions' /\ sessions'[x] = sessions[x]]_vars
    /\ [][ret'.op \in {"location", "profile"} => sessions' = sessions]_vars
    /\ [][(RequestStep /\ ret'.ok) =>
            ret'.out = TkiOf(sessions[ret'.args[1]], ret'.args[2])]_vars

\* a request that returned shares other than those the registry's current
\* profile and location yield: the profile was registered again after start
C21_Witness ==
    /\ ret.op = "request" /\ ret.ok
    /\ "EHR" \in DOMAIN profiles
    /\ \A v \in BoundNow("EHR", ret.args[1]) : ret.out # TkiOf(v, ret.args[2])

\* C22: in every reachable state each registered profile names a location of
\* the location registry; a profile is registered only under a registered
\* location and no call removes a location; so start never fails with
\* "Location doesn't exist!".
C22_ProfilesNameRegisteredLocations ==
    /\ [](\A n \in DOMAIN profiles : profiles[n].loc \in DOMAIN locations)
    /\ [](ret.op = "start" => ret.err # "Location doesn't exist!")
    /\ [][DOMAIN locations \subseteq DOMAIN locations']_vars
    /\ [][(ret'.op = "profile" /\ ret'.args[2] \notin DOMAIN locations) =>
            (~ret'.ok /\ profiles' = profiles)]_vars

\* a profile naming an unregistered location refused, the registry holding a
\* profile that a start has looked up together with its location
C22_Witness ==
    /\ ret.op = "profile" /\ ~ret.ok /\ ret.err = "Location doesn't exist!"
    /\ profiles # <<>> /\ nStart > 0

\* v has exactly threshold + 1 shares, with the indices 1 .. threshold + 1 in order
Aligned(v) ==
    /\ DOMAIN v = 1 .. threshold + 1
    /\ \A k \in 1 .. threshold + 1 : v[k].i = k

\* C23: after NetworkSetup::new(t) no call of location, profile, start or
\* request changes threshold, Y, A1, A2, yi or ai; yi, ai and the mi of every
\* stored session have exactly t+1 shares with the indices 1..t+1 in order;
\* so have both vectors start returns and the vector request returns, and
\* the addition inside request never fails on an index mismatch.
C23_CommitteeSharesFixedAndAligned ==
    /\ [][UNCHANGED <<threshold, Y, A1, A2, yi, ai>>]_vars
    /\ [](Aligned(yi) /\ Aligned(ai))
    /\ [](\A x \in DOMAIN sessions : Aligned(sessions[x].mi))
    /\ []((ret.op = "start" /\ ret.ok) =>
             (Aligned(ret.out[1]) /\ Aligned(ret.out[2])))
    /\ []((ret.op = "request" /\ ret.ok) => Aligned(ret.out))
    /\ [](ret.op = "request" => ret.err # "Shares must be in the same order")

\* a request answered by a committee of two nodes with shares of indices 1, 2
C23_Witness ==
    /\ ret.op = "request" /\ ret.ok /\ threshold = MaxThreshold
    /\ Len(ret.out) = MaxThreshold + 1
    /\ \A k \in 1 .. MaxThreshold + 1 : ret.out[k].i = k

-----------------------------------------------------------------------------
(* main.rs: one client running the protocol, run after run *)

\* the client's locals before the first run
ClientLocals(l, r, st) ==
    [l |-> l, r |-> r, st |-> st, seq |-> 1, time |-> 0, session |-> <<>>,
     k |-> 0, sig |-> [P1 |-> identity, sig |-> [c |-> 0, p |-> 0]],
     M |-> identity, PI |-> identity, Akc |-> identity, Kc |-> identity,
     token |-> <<>>, result |-> FALSE]

\* let l, r, st = rnd_scalar(); let mut setup = NetworkSetup::new(threshold)
MainInit ==
    /\ \E t \in 0 .. MaxThreshold : NetworkSetup_new(t)
    /\ now = Boot
    /\ ret = Returned("new", <<>>, <<>>)
    /\ acceptedSeq = 0 /\ nStart = 0 /\ nRequest = 0
    /\ pc = "setup"
    /\ cli \in {ClientLocals(l, r, st) :
                   l \in RndSample, r \in RndSample, st \in ClientKeys}
    /\ AlgIdle /\ SigIdle

\* setup.location(location, setup.Y * l)
MainLocation ==
    /\ pc = "setup"
    /\ location("Hospital", pt_mul(Y, cli.l))
    /\ pc' = "located"
    /\ UNCHANGED <<cli, algVars, sigVars>>

\* setup.profile(profile, location, setup.G1 * r, setup.A1 * r)
MainProfile ==
    /\ pc = "located"
    /\ profile("EHR", "Hospital", pt_mul(generator, cli.r), pt_mul(A1, cli.r))
    /\ pc' = IF ret'.ok THEN "loop" ELSE "panicked"
    /\ UNCHANGED <<cli, algVars, sigVars>>

\* client init: seq += 1, time, session, k and the signature over
\* (profile, seq, time), for MaxStarts runs
MainClientInit ==
    /\ pc = "loop"
    /\ nStart < MaxStarts
    /\ \E k \in RndSample :
       \E es \in ExtSignature_sign(cli.st, generator, pt_mul(generator, cli.st),
                                   start_data("EHR", cli.seq + 1, now)) :
         cli' = [cli EXCEPT !.seq = cli.seq + 1, !.time = now,
                            !.session = session_id(cli.seq + 1, now),
                            !.k = k, !.sig = es]
    /\ pc' = "signed"
    /\ UNCHANGED <<netVars, algVars, sigVars>>

\* round 1: setup.start(sig, profile, seq, time), then M, PI, c, Kc and Akc
MainStart ==
    /\ pc = "signed"
    /\ \E valid \in ExtSignature_verify(cli.sig, generator,
                                        start_data("EHR", cli.seq, cli.time)) :
         start(valid, "EHR", cli.seq, cli.time)
    /\ IF ret'.ok
       THEN LET M == PointShareVector_interpolate(ret'.out[1]).val
                Mk == pt_mul(M, cli.k)
                PI == PointShareVector_interpolate(ret'.out[2]).val
                c == hash(<<to_compressed(M), to_compressed(Mk), to_compressed(PI)>>)
            IN  /\ cli' = [cli EXCEPT !.M = M, !.PI = PI,
                                      !.Kc = pt_mul(generator, s_mul(cli.k, c)),
                                      !.Akc = pt_mul(A1, s_mul(cli.k, c))]
                /\ pc' = "started"
       ELSE /\ pc' = "panicked"
            /\ UNCHANGED cli
    /\ UNCHANGED <<algVars, sigVars>>

\* round 2: setup.request(&session, &Akc, &Kc), then Tk and Token::new
MainRequest ==
    /\ pc = "started"
    /\ request(cli.session, cli.Akc, cli.Kc)
    /\ IF ret'.ok
       THEN /\ \E token \in Token_new(cli.k,
                                      PointShareVector_interpolate(ret'.out).val,
                                      cli.M, cli.PI) :
                 cli' = [cli EXCEPT !.token = token]
            /\ pc' = "token"
       ELSE /\ pc' = "panicked"
            /\ UNCHANGED cli
    /\ UNCHANGED <<algVars, sigVars>>

\* round 3: token.verify(&setup)
MainVerify ==
    /\ pc = "token"
    /\ \E res \in Token_verify(cli.token) : cli' = [cli EXCEPT !.result = res]
    /\ pc' = "verified"
    /\ UNCHANGED <<netVars, algVars, sigVars>>

\* assert!(token.verify(&setup)) passed: the next run
MainAsserted ==
    /\ pc = "verified"
    /\ cli.result
    /\ pc' = "loop"
    /\ UNCHANGED <<cli, netVars, algVars, sigVars>>

MainNext ==
    \/ MainLocation \/ MainProfile \/ MainClientInit \/ MainStart
    \/ MainRequest \/ MainVerify \/ MainAsserted

SpecMain == MainInit /\ [][MainNext]_vars

-----------------------------------------------------------------------------
(* Token::verify on the tokens a verifier may be handed: any Tk, M and PI,   *)
(* signed as Token::new signs, against a setup with any authorization key.  *)

\* the setup of the verifier: A2 = G2 * a_0
TokenSetup(a0) ==
    /\ threshold = 0 /\ Y = identity /\ yi = <<>> /\ ai = <<>>
    /\ a = a0 /\ A1 = pt_mul(generator, a0) /\ A2 = pt_mul(generator, a0)
    /\ last = 0 /\ sessions = <<>> /\ profiles = <<>> /\ locations = <<>>
    /\ now = 0 /\ ret = <<>> /\ acceptedSeq = 0 /\ nStart = 0 /\ nRequest = 0

TokInit ==
    /\ \E a0 \in Scalars : TokenSetup(a0)
    /\ pc = "token"
    /\ \E k \in Scalars, Tk \in G1Points, M \in G1Points, PI \in G1Points :
       \E token \in Token_new(k, Tk, M, PI) :
         cli = [token |-> token, sigOk |-> FALSE, result |-> FALSE]
    /\ AlgIdle /\ SigIdle

\* token.verify(&setup)
TokVerify ==
    /\ pc = "token"
    /\ \E run \in Token_verify_runs(cli.token) :
         cli' = [cli EXCEPT !.sigOk = run.sigOk, !.result = run.res]
    /\ pc' = "verified"
    /\ UNCHANGED <<netVars, algVars, sigVars>>

TokNext == TokVerify

SpecTok == TokInit /\ [][TokNext]_vars

\* c = Hash(M, Mk, PI) of the token, Mk the public key its signature embeds
TokenChallenge ==
    hash(<<to_compressed(cli.token.M), to_compressed(cli.token.sig.P1),
           to_compressed(cli.token.PI)>>)

\* PI + c*Mk
TokenBound == pt_add(cli.token.PI, pt_mul(cli.token.sig.P1, TokenChallenge))

\* C15 as stated: Token::verify returns true exactly when the signature check
\* it makes passes and e(Tk, G2) = e(PI, G2) * e(c*Mk, G2).
C15_VerifyPairsWithG2 ==
    pc = "verified" =>
        (cli.result <=>
            (cli.sigOk /\ pairing(cli.token.Tk, generator)
                            = pairing(TokenBound, generator)))

\* C15 as amended: Token::verify returns true exactly when the signature check
\* it makes passes and e(Tk, G2) = e(PI, A2) * e(c*Mk, A2), A2 = a*G2 the
\* authorization key of the setup.
C15_VerifyPairsWithA2 ==
    pc = "verified" =>
        (cli.result <=>
            (cli.sigOk /\ pairing(cli.token.Tk, generator)
                            = pairing(TokenBound, A2)))

\* a token accepted with Tk = a*(PI + c*Mk), which is not PI + c*Mk
C15_Witness ==
    /\ pc = "verified" /\ cli.result
    /\ cli.token.Tk = pt_mul(TokenBound, a)
    /\ cli.token.Tk # TokenBound

=============================================================================
